---- MODULE Spec2Model ----
(***************************************************************************)
(* Model of src/src/components/Map.tsx: a React component that owns a      *)
(* maplibre map and, through a custom layer, a Babylon.js engine and       *)
(* scene.  An "overlay" is one run of the useEffect body: one map          *)
(* instance, its custom layer, and the engine/scene/loads the layer's      *)
(* onAdd creates.  Overlays are numbered in the order the maps are         *)
(* constructed.                                                            *)
(*                                                                         *)
(* Library behaviour that the component relies on is modelled as follows.  *)
(*  - React: a state setter called with a new value schedules a re-render; *)
(*    a re-render re-evaluates the default parameters, compares the effect *)
(*    dependencies with Object.is, and when one differs runs the previous  *)
(*    effect's cleanup and then the effect body.  A setter called after    *)
(*    unmount changes nothing.                                             *)
(*  - maplibre: map.remove() detaches the map and stops its events and     *)
(*    frames; it calls nothing on the layer object (the layer defines no   *)
(*    onRemove).                                                           *)
(*  - Babylon: an asset import is a promise that is later resolved or      *)
(*    rejected, whatever has happened to the map meanwhile.                *)
(* Coordinates are integers (degrees truncated).  A matrix is, as in        *)
(* Babylon, an array of 16 numbers holding a 4x4 matrix row by row, used   *)
(* with row vectors.                                                       *)
(***************************************************************************)
EXTENDS Integers, Sequences, FiniteSets, TLC

\* Number of runs of the effect body (map instances) in one behaviour.
MaxOverlays == 2

Overlays == 1..MaxOverlays
Idx == 1..4
Cells == 1..16

VARIABLES
    phase,          \* "created" | "mounted" | "unmounted"
    props,          \* the props the host passes to <Map>
    lastDeps,       \* dependency array of the last effect run
    loading,        \* useState loading
    error,          \* useState error
    shown,          \* the loading/error values of the last render
    cleanupMap,     \* map the registered effect cleanup removes (0: none)
    effectRuns,     \* number of runs of the effect body so far; run k
                    \* constructs the map of overlay k
    mapState,       \* per overlay: "none" | "live" | "removed"
    handlers,       \* per overlay: style.load / error handlers registered
    closure,        \* per overlay: values captured by the effect closure
    worldMatrix,    \* per overlay: the const worldMatrix
    layerAdded,     \* per overlay: map.addLayer(customLayer) has run
    engine,         \* per overlay: "none" | "live" | "disposed"
    modelLoad,      \* per overlay: "idle" | "pending" | "loaded" | "failed"
    splatLoad,      \* per overlay: "idle" | "pending" | "loaded" | "failed"
    scene,          \* per overlay: meshes in this.scene
    projection,     \* per overlay: the camera's frozen projection matrix
    lastCamera,     \* per overlay: mainMatrix of the last render call
                    \* (<<>>: render has not been called)
    renderLog,      \* per overlay: calls made by the last render, in order
    repaintPending, \* per overlay: a repaint is scheduled
    attempts        \* requests of the model and of the splat URL since the
                    \* mount or the last change of a configuration value

vars == <<phase, props, lastDeps, loading, error, shown,
          cleanupMap, effectRuns, mapState, handlers, closure, worldMatrix,
          layerAdded, engine, modelLoad, splatLoad, scene, projection,
          lastCamera, renderLog, repaintPending,
          attempts>>

overlayVars == <<layerAdded, engine, modelLoad, splatLoad, scene>>
frameVars == <<projection, lastCamera, renderLog, repaintPending>>
mapVars == <<cleanupMap, effectRuns, mapState, handlers, closure, worldMatrix>>
reactVars == <<phase, props, lastDeps, shown>>

-----------------------------------------------------------------------------
(* Props and their defaults                                                *)

DefaultKey == "hhddw2CTw2EzhGN7M86x"
DefaultModelUrl == "34M_17.gltf"
DefaultSplatUrl == "gs_Skull.splat"
DefaultPosition == <<148, -35>>

\* The hosts considered leave the key and the URLs at their defaults (as App
\* does for the URLs) and vary the initialPosition prop.
Keys == {DefaultKey}
ModelUrls == {DefaultModelUrl}
SplatUrls == {DefaultSplatUrl}
OtherPosition == <<0, 0>>

\* An initialPosition prop: omitted, or an array the host allocated.  Two
\* host arrays are the same object iff lnglat and ref agree.
PositionProps ==
    {[given |-> FALSE, lnglat |-> DefaultPosition, ref |-> 0]}
    \cup [given : {TRUE}, lnglat : {DefaultPosition}, ref : {0, 1}]
    \cup [given : {TRUE}, lnglat : {OtherPosition}, ref : {0}]

Props == [mapTilerKey : Keys, modelUrl : ModelUrls, splatUrl : SplatUrls,
          initialPosition : PositionProps]

NoDeps == [mapTilerKey |-> "", modelUrl |-> "", splatUrl |-> "",
           initialPosition |->
               [given |-> FALSE, lnglat |-> DefaultPosition, ref |-> 0]]

\* The array bound to initialPosition in one render.  The default
\* parameter's array literal is evaluated in every render in which the prop
\* is omitted, so it is never the array of the render before.
InitialPositionOf(p, last) ==
    IF p.initialPosition.given
    THEN p.initialPosition
    ELSE [given |-> FALSE, lnglat |-> DefaultPosition,
          ref |-> IF last.initialPosition.given
                  THEN 0 ELSE 1 - last.initialPosition.ref]

\* The effect's dependency array for a render with props p.
DepsOf(p, last) ==
    [mapTilerKey |-> p.mapTilerKey, modelUrl |-> p.modelUrl,
     splatUrl |-> p.splatUrl, initialPosition |-> InitialPositionOf(p, last)]

\* The configuration values, as opposed to the identity of the array.
ConfigValues(p) ==
    <<p.mapTilerKey, p.modelUrl, p.splatUrl, p.initialPosition.lnglat>>

-----------------------------------------------------------------------------
(* Matrices                                                                *)

ZeroMatrix == [k \in Cells |-> 0]

\* BABYLON.Matrix.FromArray: a new matrix holding the array's 16 numbers.
FromArray(arr) == [k \in Cells |-> arr[k]]

\* a.multiply(b): the matrix product a x b; with row vectors, a acts first.
\* Cell k lies in row (k - 1) \div 4 and column (k - 1) % 4, counted from 0.
Multiply(a, b) ==
    [k \in Cells |->
        LET row == 4 * ((k - 1) \div 4)
            col == ((k - 1) % 4) + 1
        IN  a[row + 1] * b[col] + a[row + 2] * b[4 + col]
            + a[row + 3] * b[8 + col] + a[row + 4] * b[12 + col]]

ScalingMatrix(s) ==
    FromArray(<<s[1], 0, 0, 0,  0, s[2], 0, 0,  0, 0, s[3], 0,  0, 0, 0, 1>>)

TranslationMatrix(t) ==
    FromArray(<<1, 0, 0, 0,  0, 1, 0, 0,  0, 0, 1, 0,  t[1], t[2], t[3], 1>>)

\* Quaternion.FromEulerAngles(PI / 2, 0, 0) as a rotation matrix: a quarter
\* turn about x, taking Babylon's +y (up) to +z and +z (north) to -y.
WorldRotate ==
    FromArray(<<1, 0, 0, 0,  0, 0, 1, 0,  0, -1, 0, 0,  0, 0, 0, 1>>)

\* BABYLON.Matrix.Compose(scale, rotation, translation).
Compose(scale, rotation, translation) ==
    Multiply(Multiply(ScalingMatrix(scale), rotation),
             TranslationMatrix(translation))

WorldAltitude == 0

\* MercatorCoordinate.fromLngLat, in integer units: x grows eastwards, y
\* grows southwards, z is the altitude.
FromLngLat(lnglat, altitude) ==
    [x |-> 180 + lnglat[1], y |-> 90 - lnglat[2], z |-> altitude]

\* meterInMercatorCoordinateUnits: grows with the distance from the equator.
MeterInMercatorCoordinateUnits(m) ==
    1 + (IF m.y >= 90 THEN m.y - 90 ELSE 90 - m.y)

\* The world matrix the effect body computes for an anchor.
WorldMatrixOf(worldOrigin) ==
    LET worldOriginMercator == FromLngLat(worldOrigin, WorldAltitude)
        worldScale == MeterInMercatorCoordinateUnits(worldOriginMercator)
    IN  Compose(<<worldScale, worldScale, worldScale>>, WorldRotate,
                <<worldOriginMercator.x, worldOriginMercator.y,
                  worldOriginMercator.z>>)

\* mainMatrix values the map may pass to render.
CameraArrays ==
    { <<0, 1, 0, 0,  1, 0, 0, 0,  0, 0, 1, 0,  0, 0, 0, 1>>,
      <<2, 0, 0, 0,  0, 3, 0, 0,  0, 0, 1, 1,  0, 0, -1, 0>> }

-----------------------------------------------------------------------------
(* Scene content                                                           *)

Mesh(n, p, s) == [name |-> n, position |-> p, scaling |-> s]

AxesMesh == Mesh("axesViewer", <<0, 0, 0>>, <<1, 1, 1>>)
RootMesh == Mesh("rootMesh", <<0, 0, 0>>, <<1, 1, 1>>)
RootMesh2 == Mesh("rootMesh2", <<25, 0, 25>>, <<1, 1, 1>>)
SplatMesh == Mesh("gaussianSplattingMesh", <<10, 5, 0>>, <<3, 3, 3>>)

-----------------------------------------------------------------------------
(* Component state                                                         *)

NoError == "null"
InitFailed == "Failed to initialize map"
MapErrorOccurred == "Map error occurred"
ModelFailed == "Failed to load 3D model"
SplatFailed == "Failed to load Gaussian Splat"

NoAttempts == [model |-> 0, splat |-> 0]

\* A state setter: the new value while the component is mounted.
SetState(old, new) == IF phase = "mounted" THEN new ELSE old

Init ==
    /\ phase = "created"
    /\ props \in Props
    /\ lastDeps = NoDeps
    /\ loading = TRUE
    /\ error = NoError
    /\ shown = [loading |-> TRUE, error |-> NoError]
    /\ cleanupMap = 0
    /\ effectRuns = 0
    /\ mapState = [o \in Overlays |-> "none"]
    /\ handlers = [o \in Overlays |-> FALSE]
    /\ closure = [o \in Overlays |->
                    [modelUrl |-> "", splatUrl |-> "",
                     worldOrigin |-> DefaultPosition]]
    /\ worldMatrix = [o \in Overlays |-> ZeroMatrix]
    /\ layerAdded = [o \in Overlays |-> FALSE]
    /\ engine = [o \in Overlays |-> "none"]
    /\ modelLoad = [o \in Overlays |-> "idle"]
    /\ splatLoad = [o \in Overlays |-> "idle"]
    /\ scene = [o \in Overlays |-> {}]
    /\ projection = [o \in Overlays |-> ZeroMatrix]
    /\ lastCamera = [o \in Overlays |-> <<>>]
    /\ renderLog = [o \in Overlays |-> <<>>]
    /\ repaintPending = [o \in Overlays |-> FALSE]
    /\ attempts = NoAttempts

-----------------------------------------------------------------------------
(* The effect: useEffect(() => {...}, [mapTilerKey, modelUrl, splatUrl,    *)
(* initialPosition])                                                       *)

\* map.remove() for overlay o (0: no cleanup registered, nothing to do).
MapRemove(ms, o) == IF o = 0 THEN ms ELSE [ms EXCEPT ![o] = "removed"]

CancelFrames(rp, o) == IF o = 0 THEN rp ELSE [rp EXCEPT ![o] = FALSE]

EffectOutcomes == {"ok", "constructorThrows", "laterThrows"}

\* The cleanup the previous run returned (if it returned one), then the
\* effect body.  outcome says where the try block is left:
\*   "ok"                 the body runs to the end and returns the cleanup;
\*   "constructorThrows"  new maplibregl.Map throws, no map instance exists;
\*   "laterThrows"        the map is constructed and a later statement before
\*                        the handlers are registered throws.
\* In both throwing cases the catch block runs and the effect returns
\* undefined, so no cleanup is registered.
EffectRun(deps, outcome, base) ==
    LET id == effectRuns + 1
        cleaned == MapRemove(mapState, cleanupMap)
    IN
    /\ effectRuns' = id
    /\ repaintPending' = CancelFrames(repaintPending, cleanupMap)
    /\ attempts' = base
    /\ CASE outcome = "ok" ->
              /\ mapState' = [cleaned EXCEPT ![id] = "live"]
              /\ worldMatrix' = [worldMatrix EXCEPT
                    ![id] = WorldMatrixOf(deps.initialPosition.lnglat)]
              /\ closure' = [closure EXCEPT
                    ![id] = [modelUrl |-> deps.modelUrl,
                             splatUrl |-> deps.splatUrl,
                             worldOrigin |-> deps.initialPosition.lnglat]]
              /\ handlers' = [handlers EXCEPT ![id] = TRUE]
              /\ cleanupMap' = id
              /\ loading' = TRUE
              /\ error' = NoError
         [] outcome = "constructorThrows" ->
              /\ mapState' = cleaned
              /\ UNCHANGED <<worldMatrix, closure, handlers>>
              /\ cleanupMap' = 0
              /\ loading' = FALSE
              /\ error' = InitFailed
         [] outcome = "laterThrows" ->
              /\ mapState' = [cleaned EXCEPT ![id] = "live"]
              /\ UNCHANGED <<worldMatrix, closure, handlers>>
              /\ cleanupMap' = 0
              /\ loading' = FALSE
              /\ error' = InitFailed

\* One render of the component with props p, and the commit of its effect:
\* the effect runs on mount and whenever a dependency is not the object or
\* value of the last run.
Commit(p, cause, outcome, base) ==
    LET deps == DepsOf(p, lastDeps) IN
    /\ props' = p
    /\ lastDeps' = deps
    /\ shown' = [loading |-> loading, error |-> error]
    /\ phase' = "mounted"
    /\ IF cause = "mount" \/ deps # lastDeps
       THEN /\ effectRuns < MaxOverlays
            /\ EffectRun(deps, outcome, base)
       ELSE /\ outcome = "ok"
            /\ attempts' = base
            /\ UNCHANGED <<loading, error, mapVars, repaintPending>>
    /\ UNCHANGED <<overlayVars, projection, lastCamera, renderLog>>

\* The host mounts <Map {...props}>.
Mount(outcome) ==
    /\ phase = "created"
    /\ Commit(props, "mount", outcome, NoAttempts)

\* A re-render caused by the component's own setLoading / setError.
Rerender(outcome) ==
    /\ phase = "mounted"
    /\ shown # [loading |-> loading, error |-> error]
    /\ Commit(props, "state", outcome, attempts)

\* The host re-renders <Map> with props p.
ParentRerender(p, outcome) ==
    /\ phase = "mounted"
    /\ Commit(p, "parent", outcome,
              IF ConfigValues(p) = ConfigValues(props)
              THEN attempts ELSE NoAttempts)

\* The host unmounts the component: React runs the registered cleanup.
Unmount ==
    /\ phase = "mounted"
    /\ phase' = "unmounted"
    /\ mapState' = MapRemove(mapState, cleanupMap)
    /\ repaintPending' = CancelFrames(repaintPending, cleanupMap)
    /\ cleanupMap' = 0
    /\ UNCHANGED <<props, lastDeps, loading, error, shown,
                   effectRuns, handlers, closure, worldMatrix, overlayVars,
                   projection, lastCamera, renderLog, attempts>>

-----------------------------------------------------------------------------
(* Map events                                                              *)

\* map.on("style.load"): map.addLayer(customLayer), which calls onAdd, then
\* setLoading(false).  onAdd creates the engine and the scene and starts the
\* loads whose URL is not empty.
StyleLoad(o) ==
    /\ mapState[o] = "live"
    /\ handlers[o]
    /\ ~layerAdded[o]
    /\ layerAdded' = [layerAdded EXCEPT ![o] = TRUE]
    /\ engine' = [engine EXCEPT ![o] = "live"]
    /\ scene' = [scene EXCEPT ![o] = {AxesMesh}]
    /\ modelLoad' = [modelLoad EXCEPT
            ![o] = IF closure[o].modelUrl # "" THEN "pending" ELSE "idle"]
    /\ splatLoad' = [splatLoad EXCEPT
            ![o] = IF closure[o].splatUrl # "" THEN "pending" ELSE "idle"]
    /\ attempts' = [attempts EXCEPT
            !.model = IF closure[o].modelUrl # "" THEN @ + 1 ELSE @,
            !.splat = IF closure[o].splatUrl # "" THEN @ + 1 ELSE @]
    /\ loading' = SetState(loading, FALSE)
    /\ UNCHANGED <<reactVars, error, mapVars, frameVars>>

\* map.on("error"): setError, setLoading(false).
MapError(o) ==
    /\ mapState[o] = "live"
    /\ handlers[o]
    /\ error' = SetState(error, MapErrorOccurred)
    /\ loading' = SetState(loading, FALSE)
    /\ UNCHANGED <<reactVars, mapVars, overlayVars, frameVars, attempts>>

-----------------------------------------------------------------------------
(* Asset loads                                                             *)

\* loadModel: the awaited LoadAssetContainerAsync resolves.
ModelResolve(o) ==
    /\ modelLoad[o] = "pending"
    /\ modelLoad' = [modelLoad EXCEPT ![o] = "loaded"]
    /\ scene' = [scene EXCEPT ![o] = @ \cup {RootMesh, RootMesh2}]
    /\ UNCHANGED <<reactVars, loading, error, mapVars, layerAdded, engine,
                   splatLoad, frameVars, attempts>>

\* Mutation of ModelReject: the failure of the model load also fails a splat
\* load that is still pending (one shared failure path for both assets).
ModelRejectAbortsSplat(o) ==
    /\ modelLoad[o] = "pending"
    /\ modelLoad' = [modelLoad EXCEPT ![o] = "failed"]
    /\ splatLoad' = [splatLoad EXCEPT
            ![o] = IF @ = "pending" THEN "failed" ELSE @]
    /\ error' = SetState(error, ModelFailed)
    /\ UNCHANGED <<reactVars, loading, mapVars, layerAdded, engine,
                   scene, frameVars, attempts>>

\* loadModel: the awaited promise rejects, the catch block runs.
ModelReject(o) ==
    /\ modelLoad[o] = "pending"
    /\ modelLoad' = [modelLoad EXCEPT ![o] = "failed"]
    /\ error' = SetState(error, ModelFailed)
    /\ UNCHANGED <<reactVars, loading, mapVars, layerAdded, engine,
                   splatLoad, scene, frameVars, attempts>>

\* loadSplatFile: ImportMeshAsync resolves, the then-callback runs.
SplatResolve(o) ==
    /\ splatLoad[o] = "pending"
    /\ splatLoad' = [splatLoad EXCEPT ![o] = "loaded"]
    /\ scene' = [scene EXCEPT ![o] = @ \cup {SplatMesh}]
    /\ UNCHANGED <<reactVars, loading, error, mapVars, layerAdded, engine,
                   modelLoad, frameVars, attempts>>

\* loadSplatFile: ImportMeshAsync rejects.  The promise is neither awaited
\* nor returned inside the try block, so the catch block is not reached and
\* the rejection is left unhandled.
SplatReject(o) ==
    /\ splatLoad[o] = "pending"
    /\ splatLoad' = [splatLoad EXCEPT ![o] = "failed"]
    /\ UNCHANGED <<reactVars, loading, error, mapVars, layerAdded, engine,
                   modelLoad, scene, frameVars, attempts>>

-----------------------------------------------------------------------------
(* Frames                                                                  *)

\* scene.render(false): the beforeRender hook wipes the engine's caches, then
\* one frame is drawn.
SceneRender(log) == Append(Append(log, "wipeCaches"), "drawFrame")

\* Mutation of Render: the matrices are multiplied in the other order,
\* cameraMatrix.multiply(worldMatrix).
RenderCameraFirst(o, cam) ==
    LET cameraMatrix == FromArray(cam)
        wvpMatrix == Multiply(cameraMatrix, worldMatrix[o])
    IN
    /\ mapState[o] = "live"
    /\ layerAdded[o]
    /\ projection' = [projection EXCEPT ![o] = wvpMatrix]
    /\ lastCamera' = [lastCamera EXCEPT ![o] = cam]
    /\ renderLog' = [renderLog EXCEPT
            ![o] = Append(SceneRender(<<"freezeProjectionMatrix">>),
                          "triggerRepaint")]
    /\ repaintPending' = [repaintPending EXCEPT ![o] = TRUE]
    /\ UNCHANGED <<reactVars, loading, error, mapVars, overlayVars, attempts>>

\* Mutation of Render: the frame is drawn and map.triggerRepaint() is not
\* called; the map consumes the scheduled repaint and schedules no other.
RenderWithoutRepaint(o, cam) ==
    LET cameraMatrix == FromArray(cam)
        wvpMatrix == Multiply(worldMatrix[o], cameraMatrix)
    IN
    /\ mapState[o] = "live"
    /\ layerAdded[o]
    /\ projection' = [projection EXCEPT ![o] = wvpMatrix]
    /\ lastCamera' = [lastCamera EXCEPT ![o] = cam]
    /\ renderLog' = [renderLog EXCEPT
            ![o] = SceneRender(<<"freezeProjectionMatrix">>)]
    /\ repaintPending' = [repaintPending EXCEPT ![o] = FALSE]
    /\ UNCHANGED <<reactVars, loading, error, mapVars, overlayVars, attempts>>

\* customLayer.render, called by the map for a frame with mainMatrix cam.
Render(o, cam) ==
    LET cameraMatrix == FromArray(cam)
        wvpMatrix == Multiply(worldMatrix[o], cameraMatrix)
    IN
    /\ mapState[o] = "live"
    /\ layerAdded[o]
    /\ projection' = [projection EXCEPT ![o] = wvpMatrix]
    /\ lastCamera' = [lastCamera EXCEPT ![o] = cam]
    /\ renderLog' = [renderLog EXCEPT
            ![o] = Append(SceneRender(<<"freezeProjectionMatrix">>),
                          "triggerRepaint")]
    /\ repaintPending' = [repaintPending EXCEPT ![o] = TRUE]
    /\ UNCHANGED <<reactVars, loading, error, mapVars, overlayVars, attempts>>

-----------------------------------------------------------------------------

\* The component under a host that renders it once, as App does: App has no
\* state and no props, so it never renders <Map> again.
NextApp ==
    \/ \E outcome \in EffectOutcomes : Mount(outcome)
    \/ \E outcome \in EffectOutcomes : Rerender(outcome)
    \/ Unmount
    \/ \E o \in Overlays : StyleLoad(o)
    \/ \E o \in Overlays : MapError(o)
    \/ \E o \in Overlays : ModelResolve(o)
    \/ \E o \in Overlays : ModelReject(o)
    \/ \E o \in Overlays : SplatResolve(o)
    \/ \E o \in Overlays : SplatReject(o)
    \/ \E o \in Overlays, cam \in CameraArrays : Render(o, cam)

SpecApp == Init /\ [][NextApp]_vars

\* The component under any host: the host may also render it again, with the
\* same or with other props.
Next ==
    \/ NextApp
    \/ \E p \in Props, outcome \in EffectOutcomes : ParentRerender(p, outcome)

Spec == Init /\ [][Next]_vars

-----------------------------------------------------------------------------
(* Properties                                                              *)

\* C1: an asset load that completes after the overlay's teardown
\* (map.remove) leaves the scene of the torn-down overlay unchanged.
C1_LateLoadLeavesSceneUnchanged ==
    [][\A o \in Overlays :
          mapState[o] = "removed" => scene'[o] = scene[o]]_vars

\* C2: every map instance that was constructed is released no later than the
\* component's unmount or re-initialization, also when a later step of the
\* initialization threw: a map that is still live belongs to the last run of
\* the effect of a mounted component.
C2_MapReleasedOnEveryExitPath ==
    \A o \in Overlays :
        mapState[o] = "live" => (phase = "mounted" /\ o = effectRuns)

\* C3: the teardown of an overlay releases the map instance and the engine
\* that onAdd created: once the map is removed, the engine is disposed.
C3_TeardownReleasesMapAndEngine ==
    \A o \in Overlays :
        (mapState[o] = "removed" /\ engine[o] # "none")
            => engine[o] = "disposed"

\* C4: a rejected splat import sets the error state to a message, as a
\* rejected model load does.
C4_SplatRejectionSetsError ==
    [][\A o \in Overlays :
          (phase = "mounted" /\ splatLoad[o] = "pending"
           /\ splatLoad'[o] = "failed") => error' # NoError]_vars

\* C5: the two loads of an overlay are independent: the completion of one
\* leaves the state of the other as it was; and when the model load has
\* failed and the splat load has succeeded, then, as long as the overlay is
\* not torn down, the error state holds a message and the splat mesh is in
\* the scene with its position and scaling.
C5_LoadsIndependent ==
    [][\A o \in Overlays :
          /\ (modelLoad[o] = "pending" /\ modelLoad'[o] # "pending")
                => splatLoad'[o] = splatLoad[o]
          /\ (splatLoad[o] = "pending" /\ splatLoad'[o] # "pending")
                => modelLoad'[o] = modelLoad[o]
          /\ (mapState'[o] = "live" /\ modelLoad'[o] = "failed"
              /\ splatLoad'[o] = "loaded")
                => (error' # NoError /\ SplatMesh \in scene'[o])]_vars

\* C5 witness: on a live overlay the model load failed after the splat load
\* had succeeded, the error is set and the splat mesh is placed.
C5_Witness ==
    \E o \in Overlays :
        /\ mapState[o] = "live"
        /\ modelLoad[o] = "failed"
        /\ splatLoad[o] = "loaded"
        /\ error = ModelFailed
        /\ SplatMesh \in scene[o]

\* C6: while the component stays mounted with unchanged configuration
\* values, each asset URL is requested at most once.
C6_EachAssetRequestedOnce ==
    attempts.model <= 1 /\ attempts.splat <= 1

\* C7: while the props are unchanged, a render that shows a change of the
\* component's own loading or error state neither tears down nor constructs
\* a map, and recomputes no world matrix.
C7_StateChangeKeepsOverlay ==
    [][(phase = "mounted" /\ phase' = "mounted" /\ props' = props
        /\ shown' # shown)
          => (mapState' = mapState /\ effectRuns' = effectRuns
              /\ worldMatrix' = worldMatrix)]_vars

\* The world matrix of every anchor a host can pass.
AnchorWorldMatrix ==
    [pos \in {DefaultPosition, OtherPosition} |-> WorldMatrixOf(pos)]

\* Entry (i, j) of a matrix.
At(m, i, j) == m[4 * (i - 1) + j]

\* For every anchor and every camera array: the matrix whose entry (i, j) is
\* the sum over k of world(i, k) * camera(k, j).
WorldThenCamera ==
    [pos \in {DefaultPosition, OtherPosition} |->
        [c \in CameraArrays |->
            [cell \in Cells |->
                LET i == CHOOSE r \in Idx : \E q \in Idx : 4 * (r - 1) + q = cell
                    j == CHOOSE q \in Idx : 4 * (i - 1) + q = cell
                    w == AnchorWorldMatrix[pos]
                IN  At(w, i, 1) * At(c, 1, j) + At(w, i, 2) * At(c, 2, j)
                    + At(w, i, 3) * At(c, 3, j) + At(w, i, 4) * At(c, 4, j)]]]

\* C8: after every render call the camera's projection matrix is the product
\* of the overlay's world matrix (first) and the camera matrix passed to that
\* call, whatever else has happened; the world matrix is the one computed
\* from the overlay's anchor.
C8_ProjectionIsWorldTimesCamera ==
    \A o \in Overlays :
        lastCamera[o] # <<>> =>
            /\ worldMatrix[o] = AnchorWorldMatrix[closure[o].worldOrigin]
            /\ projection[o] =
                    WorldThenCamera[closure[o].worldOrigin][lastCamera[o]]

\* C8 witness: the second overlay of a mount has rendered a frame with the
\* perspective camera, after its model has loaded and while an error is
\* displayed.
C8_Witness ==
    /\ lastCamera[2] # <<>>
    /\ lastCamera[2][1] = 2
    /\ modelLoad[2] = "loaded"
    /\ error # NoError
    /\ shown.error # NoError

\* C9: every render call installs the projection matrix, wipes the engine's
\* caches, draws one frame and requests one repaint, in this order and each
\* once; so after a render a repaint is scheduled for as long as the map is
\* not removed.
C9_RenderOrderAndRepaint ==
    \A o \in Overlays :
        lastCamera[o] # <<>> =>
            /\ renderLog[o] = <<"freezeProjectionMatrix", "wipeCaches",
                                "drawFrame", "triggerRepaint">>
            /\ (mapState[o] = "live" => repaintPending[o])

\* C9 witness: a live overlay has rendered a frame and a repaint is
\* scheduled, while an earlier overlay that had rendered is removed.
C9_Witness ==
    /\ mapState[1] = "removed"
    /\ renderLog[1] # <<>>
    /\ mapState[2] = "live"
    /\ renderLog[2] # <<>>
    /\ repaintPending[2]

\* C10: a model or splat load failure of a torn-down overlay never changes
\* the component's error state.
C10_LateFailureKeepsError ==
    [][\A o \in Overlays :
          (mapState[o] = "removed"
           /\ \/ (modelLoad[o] = "pending" /\ modelLoad'[o] = "failed")
              \/ (splatLoad[o] = "pending" /\ splatLoad'[o] = "failed"))
            => error' = error]_vars

====
